---- MODULE Spec2Model ----
(***************************************************************************)
(* Model of the aws_datazone_project resource adapter                      *)
(* (internal/service/datazone/project.go): the lifecycle handlers Create,  *)
(* Read, Update, Delete, ImportState and the three poll-until-settled      *)
(* waits built on retry.StateChangeConf.                                   *)
(***************************************************************************)
EXTENDS Integers, Sequences, FiniteSets, TLC

VARIABLES
    tfstate,     \* the stored resource state record (resp.State), or NoRecord
    remote,      \* the project held by the remote DataZone API, or NoProject
    pc,          \* position of the running handler: idle or inside one of the waits
    ctx,         \* locals of the handler that is blocked in a wait (plan, in, out)
    wait,        \* locals of WaitForStateContext plus the latest refresh results
    last,        \* outcome of the latest handler step (diagnostics, calls issued)
    hist,        \* the latest successful Create, until the remote or the record changes
    req_ID,      \* ImportState: the import identifier, a sequence of characters
    importResp   \* ImportState: the response (diagnostics, attributes set, fault)

vars == <<tfstate, remote, pc, ctx, wait, last, hist, req_ID, importResp>>

lifecycleVars == <<tfstate, remote, pc, ctx, wait, last, hist>>

importVars == <<req_ID, importResp>>

(***************************************************************************)
(* Bounds and value sets                                                   *)
(***************************************************************************)
MaxLen == 4

Chars == {"d", "p", ":"}

Null == "<null>"

Nil == "<nil>"

NoErr == Nil

DomainIds == {"dzd_1", "dzd_2"}

ProjectIds == {"prj_1", "prj_2"}

Names == {"n1", "n2"}

Descriptions == {Null, "d1"}

GlossaryTermLists == {Null, "g1"}

SkipValues == {Null, "true"}

(***************************************************************************)
(* ImportState                                                             *)
(***************************************************************************)
Strings == UNION {[1..n -> Chars] : n \in 0..MaxLen}

RECURSIVE SplitFrom(_, _, _, _)
SplitFrom(s, sep, cur, acc) ==
    IF s = <<>> THEN Append(acc, cur)
    ELSE IF Head(s) = sep THEN SplitFrom(Tail(s), sep, <<>>, Append(acc, cur))
    ELSE SplitFrom(Tail(s), sep, Append(cur, Head(s)), acc)

\* strings.Split(s, sep) for a one-character separator: always at least one part.
Split(s, sep) == SplitFrom(s, sep, <<>>, <<>>)

ImportFormatError ==
    [summary |-> "Resource Import Invalid ID",
     detail |-> "Unexpected format for import ID, use: \"DomainIdentifier:Id\""]

NoImportResp ==
    [run |-> FALSE, panic |-> FALSE, diags |-> <<>>, domain_id |-> <<>>, id |-> <<>>,
     domain_id_set |-> FALSE, id_set |-> FALSE]

\* The response of ImportState for the identifier id. The length check adds a
\* diagnostic and does not return; parts[1] on a one-element slice is an index
\* out of range, a run-time panic of the provider process.
ImportStateResp(id) ==
    LET parts == Split(id, ":")
        diags == IF Len(parts) # 2 THEN <<ImportFormatError>> ELSE <<>>
    IN  IF Len(parts) < 2
        THEN [run |-> TRUE, panic |-> TRUE, diags |-> diags,
              domain_id |-> parts[1], id |-> <<>>,
              domain_id_set |-> TRUE, id_set |-> FALSE]
        ELSE [run |-> TRUE, panic |-> FALSE, diags |-> diags,
              domain_id |-> parts[1], id |-> parts[2],
              domain_id_set |-> TRUE, id_set |-> TRUE]

ImportState ==
    /\ ~importResp.run
    /\ importResp' = ImportStateResp(req_ID)
    /\ UNCHANGED <<req_ID, lifecycleVars>>

(***************************************************************************)
(* Records: resourceProjectData, the remote project, API outputs           *)
(***************************************************************************)
Statuses == {"ACTIVE", "DELETING", "DELETE_FAILED"}

\* resourceProjectData: absent (no stored record) or the attribute values. Of
\* the computed attributes only id is kept: created_by, created_at,
\* last_updated_at, project_status and failure_reasons are copied from the
\* output like id and read by no handler; timeouts is read as a duration only.
NoRecord ==
    [present |-> FALSE, id |-> Null, domain_id |-> Null, name |-> Null,
     description |-> Null, glossary_terms |-> Null, skip_deletion_check |-> Null]

\* A plan as the framework hands it to Create and Update: the configured
\* attributes are set, the computed ones are taken from prior (unknown on Create).
PlanOf(prior, d, n, desc, g, skip) ==
    [present |-> TRUE, id |-> prior.id, domain_id |-> d, name |-> n,
     description |-> desc, glossary_terms |-> g, skip_deletion_check |-> skip]

\* The remote project, and the output object of Get/Create/UpdateProject
\* (present = FALSE is the nil output).
NoProject ==
    [present |-> FALSE, id |-> Nil, domain_id |-> Nil, name |-> Nil,
     description |-> Nil, glossary_terms |-> Nil, project_status |-> Nil,
     failure_reasons |-> FALSE]

\* An API input: unset members are Nil.
NoInput ==
    [DomainIdentifier |-> Nil, Identifier |-> Nil, Name |-> Nil,
     Description |-> Nil, GlossaryTerms |-> Nil, SkipDeletionCheck |-> Nil]

EmptySlice == "[]"

\* A string pointer of the output as an attribute value: nil becomes null.
FlattenValue(v) == IF v = Nil \/ v = EmptySlice THEN Null ELSE v

\* flex.Flatten(ctx, out, &data): every field of the output with a namesake in
\* the data struct is copied; Timeouts and SkipDeletionCheck have none.
Flatten(out, data) ==
    [data EXCEPT !.id = FlattenValue(out.id),
                 !.domain_id = FlattenValue(out.domain_id),
                 !.name = FlattenValue(out.name),
                 !.description = FlattenValue(out.description),
                 !.glossary_terms = FlattenValue(out.glossary_terms)]

(***************************************************************************)
(* Errors                                                                  *)
(***************************************************************************)
ResourceNotFoundException == "ResourceNotFoundException"

AccessDeniedException == "AccessDeniedException"

InternalServerException == "InternalServerException"

NotFoundError == "retry.NotFoundError"

EmptyResultError == "tfresource.EmptyResultError"

TimeoutError == "retry.TimeoutError"

UnexpectedStateError == "retry.UnexpectedStateError"

\* Errors an API call can answer besides resource-not-found.
ApiFaults == {AccessDeniedException, InternalServerException}

\* tfresource.NotFound(err): the error stands for a "resource not found" condition.
NotFound(err) == err \in {NotFoundError, ResourceNotFoundException}

\* create.ProblemStandardMessage(names.DataZone, action, ResNameProject, id, err)
ProblemStandardMessage(action, detail) == [action |-> action, detail |-> detail]

(***************************************************************************)
(* The remote API                                                          *)
(***************************************************************************)
\* conn.GetProject: fault is the error the call answers, NoErr to be served.
GetProject(rem, domain, identifier, fault) ==
    IF fault # NoErr THEN [out |-> NoProject, err |-> fault]
    ELSE IF ~rem.present \/ rem.domain_id # domain \/ rem.id # identifier
    THEN [out |-> NoProject, err |-> ResourceNotFoundException]
    ELSE [out |-> rem, err |-> NoErr]

(***************************************************************************)
(* findProjectByID, statusProject                                          *)
(***************************************************************************)
findProjectByID(rem, domain, identifier, fault) ==
    LET got == GetProject(rem, domain, identifier, fault)
    IN  IF got.err # NoErr
        THEN IF got.err = ResourceNotFoundException
             THEN [out |-> NoProject, err |-> NotFoundError]
             ELSE [out |-> NoProject, err |-> got.err]
        ELSE IF ~got.out.present \/ got.out.failure_reasons
        THEN [out |-> NoProject, err |-> EmptyResultError]
        ELSE [out |-> got.out, err |-> NoErr]

\* The refresh function: (result, state, error); found = FALSE is the nil result.
statusProject(rem, domain, identifier, fault) ==
    LET f == findProjectByID(rem, domain, identifier, fault)
    IN  IF NotFound(f.err) THEN [found |-> FALSE, state |-> "", err |-> NoErr]
        ELSE IF f.err # NoErr THEN [found |-> FALSE, state |-> "", err |-> f.err]
        ELSE [found |-> TRUE, state |-> f.out.project_status, err |-> NoErr]

(***************************************************************************)
(* retry.StateChangeConf and one round of WaitForStateContext              *)
(***************************************************************************)
StateChangeConfCreated ==
    [Pending |-> {}, Target |-> {"ACTIVE"},
     NotFoundChecks |-> 20, ContinuousTargetOccurence |-> 2]

StateChangeConfUpdated ==
    [Pending |-> {}, Target |-> {"ACTIVE"},
     NotFoundChecks |-> 20, ContinuousTargetOccurence |-> 2]

\* The delete conf asking for two confirmations of absence.
StateChangeConfDeleted_TwoConfirmations ==
    [Pending |-> {"DELETING", "ACTIVE"}, Target |-> {},
     NotFoundChecks |-> 0, ContinuousTargetOccurence |-> 2]

StateChangeConfDeleted ==
    [Pending |-> {"DELETING", "ACTIVE"}, Target |-> {},
     NotFoundChecks |-> 0, ContinuousTargetOccurence |-> 0]

\* WaitForStateContext replaces the zero values by its defaults.
NotFoundChecksOf(conf) == IF conf.NotFoundChecks = 0 THEN 20 ELSE conf.NotFoundChecks

ContinuousTargetOccurenceOf(conf) ==
    IF conf.ContinuousTargetOccurence = 0 THEN 1 ELSE conf.ContinuousTargetOccurence

\* One round of the refresh loop on the refresh result r, from the counters w.
\* verdict: "continue" (refresh again), "done" (target reached) or "error".
WaitRound(conf, w, r) ==
    LET cont(t, n) == [verdict |-> "continue", err |-> NoErr,
                       targetOccurence |-> t, notfoundTick |-> n]
        done(t, n) == [verdict |-> "done", err |-> NoErr,
                       targetOccurence |-> t, notfoundTick |-> n]
        fail(e, t, n) == [verdict |-> "error", err |-> e,
                          targetOccurence |-> t, notfoundTick |-> n]
        t0 == w.targetOccurence
        n0 == w.notfoundTick
    IN  IF r.err # NoErr THEN fail(r.err, t0, n0)
        ELSE IF ~r.found /\ conf.Target = {}
        THEN IF ContinuousTargetOccurenceOf(conf) = t0 + 1
             THEN done(t0 + 1, n0) ELSE cont(t0 + 1, n0)
        ELSE IF ~r.found
        THEN IF n0 + 1 > NotFoundChecksOf(conf)
             THEN fail(NotFoundError, t0, n0 + 1) ELSE cont(t0, n0 + 1)
        ELSE LET inTarget == r.state \in conf.Target
                 inPending == r.state \in conf.Pending
                 t1 == IF inTarget THEN t0 + 1 ELSE t0
                 t2 == IF inPending THEN 0 ELSE t1
             IN  IF inTarget /\ ContinuousTargetOccurenceOf(conf) = t1
                 THEN done(t1, 0)
                 ELSE IF ~(inTarget \/ inPending) /\ conf.Pending # {}
                 THEN fail(UnexpectedStateError, t2, 0)
                 ELSE cont(t2, 0)

(***************************************************************************)
(* Handler bookkeeping                                                     *)
(***************************************************************************)
\* The locals plan, in and out of a handler that is blocked in its wait or has
\* returned before it.
NoCtx == [plan |-> NoRecord, in |-> NoInput, out |-> NoProject]

NoResult == [found |-> FALSE, state |-> "", err |-> NoErr]

\* The locals of WaitForStateContext: the two counters and lastResult.
NoWait == [targetOccurence |-> 0, notfoundTick |-> 0, lastResult |-> NoResult]

NoHist == [created |-> FALSE, id |-> Null, domain_id |-> Null]

NoLast ==
    [op |-> "none", step |-> "none", returned |-> TRUE, diags |-> <<>>,
     calls |-> <<>>, result |-> NoResult, waitErr |-> NoErr]

\* An API call with the error it answered.
Call(api, err) == [api |-> api, err |-> err]

\* The outcome of a handler step: the diagnostics it added, the API calls it
\* issued, whether the handler returned, the refresh result if it polled and
\* the error the wait returned if it ended.
Outcome(op, step, returned, diags, calls, result, waitErr) ==
    [op |-> op, step |-> step, returned |-> returned, diags |-> diags,
     calls |-> calls, result |-> result, waitErr |-> waitErr]

ValueString(v) == IF v = Null THEN "" ELSE v

\* A refresh of the wait conf keyed by (domain, identifier): the GetProject
\* call, the round's verdict and the wait locals after it.
Refresh(conf, domain, identifier, fault) ==
    LET r == statusProject(remote, domain, identifier, fault)
        rnd == WaitRound(conf, wait, r)
    IN  [verdict |-> rnd.verdict, err |-> rnd.err, result |-> r,
         call |-> Call("GetProject", GetProject(remote, domain, identifier, fault).err),
         wait |-> [targetOccurence |-> rnd.targetOccurence,
                   notfoundTick |-> rnd.notfoundTick,
                   lastResult |-> r]]

(***************************************************************************)
(* Create                                                                  *)
(***************************************************************************)
CreateProjectInput(plan) ==
    [NoInput EXCEPT !.Name = ValueString(plan.name),
                    !.Description = IF plan.description # Null THEN plan.description ELSE Nil,
                    !.DomainIdentifier = IF plan.domain_id # Null THEN plan.domain_id ELSE Nil,
                    !.GlossaryTerms = IF plan.glossary_terms # Null THEN plan.glossary_terms ELSE Nil]

\* The project the remote API makes of an accepted CreateProject request.
CreatedProject(in, newId, st, failed) ==
    [present |-> TRUE, id |-> newId, domain_id |-> in.DomainIdentifier, name |-> in.Name,
     description |-> in.Description, glossary_terms |-> in.GlossaryTerms,
     project_status |-> st, failure_reasons |-> failed]

\* Create from the CreateProject call up to the call of waitProjectCreated;
\* domErr is what GetDomain answered. cFault is the error CreateProject
\* answers (NoErr: none); cOut is the shape of its output: "nil", "failure"
\* (failure reasons) or "ok".
CreateProjectStep(plan, domErr, cFault, cOut, newId, st) ==
    LET in == CreateProjectInput(plan)
        made == CreatedProject(in, newId, st, cOut = "failure")
        out == IF cOut = "nil" THEN NoProject ELSE made
        calls == <<Call("GetDomain", domErr), Call("CreateProject", cFault)>>
        abort(detail) ==
            /\ last' = Outcome("Create", "start", TRUE,
                               <<ProblemStandardMessage("ErrActionCreating", detail)>>,
                               calls, NoResult, NoErr)
            /\ UNCHANGED <<tfstate, pc, wait>>
    IN  IF cFault # NoErr
        THEN /\ abort(cFault)
             /\ ctx' = [plan |-> plan, in |-> in, out |-> NoProject]
             /\ UNCHANGED remote
        ELSE IF ~out.present \/ out.failure_reasons
        THEN /\ abort("failure reasons populated")
             /\ ctx' = [plan |-> plan, in |-> in, out |-> out]
             /\ remote' = IF cOut = "nil" THEN remote ELSE made
        ELSE /\ remote' = made
             /\ ctx' = [plan |-> Flatten(out, plan), in |-> in, out |-> out]
             /\ pc' = "waitProjectCreated"
             /\ wait' = NoWait
             /\ last' = Outcome("Create", "start", FALSE, <<>>, calls, NoResult, NoErr)
             /\ UNCHANGED tfstate

\* Create continuing past a failed GetDomain.
CreateBody_NoReturn(plan, domFault, cFault, cOut, newId, st) ==
    CreateProjectStep(plan, domFault, cFault, cOut, newId, st)

\* Create up to the call of waitProjectCreated; domFault is the error
\* GetDomain answers (NoErr: none).
CreateBody(plan, domFault, cFault, cOut, newId, st) ==
    IF domFault # NoErr
    THEN /\ last' = Outcome("Create", "start", TRUE,
                            <<ProblemStandardMessage("ErrActionCreating", domFault)>>,
                            <<Call("GetDomain", domFault)>>, NoResult, NoErr)
         /\ ctx' = [plan |-> plan, in |-> NoInput, out |-> NoProject]
         /\ UNCHANGED <<tfstate, remote, pc, wait>>
    ELSE CreateProjectStep(plan, domFault, cFault, cOut, newId, st)

\* What the remote API can answer to Create's calls: GetDomain fails, or
\* CreateProject fails, or it answers an output of one of the shapes outs
\* ("nil", "failure", "ok") for a new project with a status of sts.
CreateAnswers(outs, sts) ==
    LET first == CHOOSE i \in ProjectIds : TRUE
        active == "ACTIVE"
    IN  {[domFault |-> ResourceNotFoundException, cFault |-> NoErr, cOut |-> "ok",
          newId |-> first, st |-> active]}
        \cup {[domFault |-> NoErr, cFault |-> f, cOut |-> "ok", newId |-> first, st |-> active] :
                f \in ApiFaults}
        \cup {[domFault |-> NoErr, cFault |-> NoErr, cOut |-> "nil", newId |-> first, st |-> active] :
                o \in outs \cap {"nil"}}
        \cup {[domFault |-> NoErr, cFault |-> NoErr, cOut |-> o, newId |-> i, st |-> t] :
                o \in outs \ {"nil"}, i \in ProjectIds, t \in sts}

\* Create on a plan drawn from the given attribute values, against a remote
\* API whose CreateProject outputs have the shapes outs and the statuses sts.
CreateWith(ns, descs, gs, skips, outs, sts) ==
    /\ pc = "idle"
    /\ ~tfstate.present
    /\ \E d \in DomainIds, n \in ns, desc \in descs, g \in gs, skip \in skips,
          a \in CreateAnswers(outs, sts) :
            CreateBody(PlanOf(NoRecord, d, n, desc, g, skip),
                       a.domFault, a.cFault, a.cOut, a.newId, a.st)
    /\ hist' = NoHist
    /\ UNCHANGED importVars

\* Create storing the plan without the id of the CreateProject response.
CreateFinish_WithoutReturnedId(err, step, calls, result) ==
    /\ IF err # NoErr
       THEN /\ last' = Outcome("Create", step, TRUE,
                               <<ProblemStandardMessage("ErrActionWaitingForCreation", err)>>,
                               calls, result, err)
            /\ UNCHANGED <<tfstate, hist>>
       ELSE /\ tfstate' = [ctx.plan EXCEPT !.id = Null]
            /\ hist' = [created |-> TRUE, id |-> ctx.out.id, domain_id |-> ctx.in.DomainIdentifier]
            /\ last' = Outcome("Create", step, TRUE, <<>>, calls, result, err)
    /\ pc' = "idle"
    /\ wait' = NoWait
    /\ ctx' = NoCtx

\* The rest of Create once waitProjectCreated has returned err.
CreateFinish(err, step, calls, result) ==
    /\ IF err # NoErr
       THEN /\ last' = Outcome("Create", step, TRUE,
                               <<ProblemStandardMessage("ErrActionWaitingForCreation", err)>>,
                               calls, result, err)
            /\ UNCHANGED <<tfstate, hist>>
       ELSE /\ tfstate' = ctx.plan
            /\ hist' = [created |-> TRUE, id |-> ctx.out.id, domain_id |-> ctx.in.DomainIdentifier]
            /\ last' = Outcome("Create", step, TRUE, <<>>, calls, result, err)
    /\ pc' = "idle"
    /\ wait' = NoWait
    /\ ctx' = NoCtx

CreateRefresh ==
    /\ pc = "waitProjectCreated"
    /\ \E fault \in {NoErr} \cup ApiFaults :
         LET r == Refresh(StateChangeConfCreated, ctx.plan.domain_id, ctx.plan.id, fault)
         IN  IF r.verdict = "continue"
             THEN /\ wait' = r.wait
                  /\ last' = Outcome("Create", "refresh", FALSE, <<>>, <<r.call>>, r.result, NoErr)
                  /\ UNCHANGED <<tfstate, pc, ctx, hist>>
             ELSE CreateFinish(r.err, "refresh", <<r.call>>, r.result)
    /\ UNCHANGED <<remote, importVars>>

CreateTimeout ==
    /\ pc = "waitProjectCreated"
    /\ CreateFinish(TimeoutError, "timeout", <<>>, NoResult)
    /\ UNCHANGED <<remote, importVars>>

(***************************************************************************)
(* Read                                                                    *)
(***************************************************************************)
GetProjectInput(state) ==
    [NoInput EXCEPT !.DomainIdentifier = state.domain_id, !.Identifier = state.id]

\* Read removing the record on every describe error.
ReadBody_RemoveOnAnyError(state, fault) ==
    LET in == GetProjectInput(state)
        got == GetProject(remote, in.DomainIdentifier, in.Identifier, fault)
        calls == <<Call("GetProject", got.err)>>
    IN  IF got.err # NoErr
        THEN /\ tfstate' = NoRecord
             /\ last' = Outcome("Read", "start", TRUE, <<>>, calls, NoResult, NoErr)
        ELSE /\ tfstate' = Flatten(got.out, state)
             /\ last' = Outcome("Read", "start", TRUE, <<>>, calls, NoResult, NoErr)

ReadBody(state, fault) ==
    LET in == GetProjectInput(state)
        got == GetProject(remote, in.DomainIdentifier, in.Identifier, fault)
        calls == <<Call("GetProject", got.err)>>
    IN  IF NotFound(got.err)
        THEN /\ tfstate' = NoRecord
             /\ last' = Outcome("Read", "start", TRUE, <<>>, calls, NoResult, NoErr)
        ELSE IF got.err # NoErr
        THEN /\ last' = Outcome("Read", "start", TRUE,
                                <<ProblemStandardMessage("ErrActionSetting", got.err)>>,
                                calls, NoResult, NoErr)
             /\ UNCHANGED tfstate
        ELSE /\ tfstate' = Flatten(got.out, state)
             /\ last' = Outcome("Read", "start", TRUE, <<>>, calls, NoResult, NoErr)

Read ==
    /\ pc = "idle"
    /\ tfstate.present
    /\ \E fault \in {NoErr} \cup ApiFaults : ReadBody(tfstate, fault)
    /\ ctx' = [plan |-> NoRecord, in |-> GetProjectInput(tfstate), out |-> NoProject]
    /\ UNCHANGED <<remote, pc, wait, hist, importVars>>

(***************************************************************************)
(* Update                                                                  *)
(***************************************************************************)
UpdateProjectInput(plan, state) ==
    [NoInput EXCEPT
        !.DomainIdentifier = ValueString(plan.domain_id),
        !.Identifier = ValueString(plan.id),
        !.GlossaryTerms =
            IF plan.glossary_terms = Null /\ plan.glossary_terms # state.glossary_terms
            THEN EmptySlice ELSE Nil,
        !.Description =
            IF plan.description # Null
               /\ ValueString(plan.description) # ValueString(state.description)
            THEN plan.description ELSE Nil,
        !.Name = IF plan.name # Null /\ plan.name # state.name THEN plan.name ELSE Nil]

\* The remote project after an accepted UpdateProject request.
UpdatedProject(rem, in) ==
    [rem EXCEPT
        !.name = IF in.Name # Nil THEN in.Name ELSE @,
        !.description = IF in.Description # Nil THEN in.Description ELSE @,
        !.glossary_terms = IF in.GlossaryTerms = EmptySlice THEN Nil
                           ELSE IF in.GlossaryTerms # Nil THEN in.GlossaryTerms ELSE @]

\* conn.UpdateProject: the error it answers with and the project it leaves.
UpdateProject(rem, in, fault) ==
    IF fault # NoErr THEN [err |-> fault, rem |-> rem]
    ELSE IF ~rem.present \/ rem.domain_id # in.DomainIdentifier \/ rem.id # in.Identifier
    THEN [err |-> ResourceNotFoundException, rem |-> rem]
    ELSE [err |-> NoErr, rem |-> UpdatedProject(rem, in)]

\* Update from the UpdateProject call up to the call of waitProjectUpdated;
\* nilOut: UpdateProject answers no error and no output.
UpdateProjectStep(plan, state, fault, nilOut) ==
    LET in == UpdateProjectInput(plan, state)
        res == UpdateProject(remote, in, fault)
        calls == <<Call("UpdateProject", res.err)>>
        abort(detail) ==
            /\ last' = Outcome("Update", "start", TRUE,
                               <<ProblemStandardMessage("ErrActionUpdating", detail)>>,
                               calls, NoResult, NoErr)
            /\ ctx' = [plan |-> plan, in |-> in, out |-> NoProject]
            /\ UNCHANGED <<pc, wait>>
    IN  IF res.err # NoErr
        THEN /\ abort(res.err)
             /\ UNCHANGED remote
        ELSE IF nilOut
        THEN /\ abort("empty output from project update")
             /\ remote' = res.rem
        ELSE /\ remote' = res.rem
             /\ ctx' = [plan |-> plan, in |-> in, out |-> res.rem]
             /\ pc' = "waitProjectUpdated"
             /\ wait' = NoWait
             /\ last' = Outcome("Update", "start", FALSE, <<>>, calls, NoResult, NoErr)

\* Update without the domain_id check.
UpdateBody_NoDomainCheck(plan, state, fault, nilOut) ==
    UpdateProjectStep(plan, state, fault, nilOut)

\* Update up to the call of waitProjectUpdated.
UpdateBody(plan, state, fault, nilOut) ==
    IF plan.domain_id # state.domain_id
    THEN /\ last' = Outcome("Update", "start", TRUE,
                            <<ProblemStandardMessage("ErrActionUpdating",
                                                     "domain_id should not change with updates")>>,
                            <<>>, NoResult, NoErr)
         /\ ctx' = [plan |-> plan, in |-> NoInput, out |-> NoProject]
         /\ UNCHANGED <<remote, pc, wait>>
    ELSE UpdateProjectStep(plan, state, fault, nilOut)

\* What the remote API can answer to UpdateProject: an error, no error and
\* no output, or the updated project.
UpdateAnswers ==
    {[fault |-> f, nilOut |-> FALSE] : f \in {NoErr} \cup ApiFaults}
    \cup {[fault |-> NoErr, nilOut |-> TRUE]}

\* Update on a plan drawn from the given attribute values.
UpdateWith(ns, descs, gs, skips) ==
    /\ pc = "idle"
    /\ tfstate.present
    /\ \E d \in DomainIds, n \in ns, desc \in descs, g \in gs, skip \in skips,
          a \in UpdateAnswers :
            UpdateBody(PlanOf(tfstate, d, n, desc, g, skip), tfstate, a.fault, a.nilOut)
    /\ hist' = NoHist
    /\ UNCHANGED <<tfstate, importVars>>

\* Update storing the plan, not the prior state, under the copied fields.
UpdateFinish_StoresPlan(err, step, calls, result) ==
    /\ IF err # NoErr
       THEN /\ last' = Outcome("Update", step, TRUE,
                               <<ProblemStandardMessage("ErrActionWaitingForUpdate", err)>>,
                               calls, result, err)
            /\ UNCHANGED tfstate
       ELSE /\ tfstate' = Flatten(ctx.out, ctx.plan)
            /\ last' = Outcome("Update", step, TRUE, <<>>, calls, result, err)
    /\ pc' = "idle"
    /\ wait' = NoWait
    /\ ctx' = NoCtx

\* The rest of Update once waitProjectUpdated has returned err.
UpdateFinish(err, step, calls, result) ==
    /\ IF err # NoErr
       THEN /\ last' = Outcome("Update", step, TRUE,
                               <<ProblemStandardMessage("ErrActionWaitingForUpdate", err)>>,
                               calls, result, err)
            /\ UNCHANGED tfstate
       ELSE /\ tfstate' = Flatten(ctx.out, tfstate)
            /\ last' = Outcome("Update", step, TRUE, <<>>, calls, result, err)
    /\ pc' = "idle"
    /\ wait' = NoWait
    /\ ctx' = NoCtx

UpdateRefresh ==
    /\ pc = "waitProjectUpdated"
    /\ \E fault \in {NoErr} \cup ApiFaults :
         LET r == Refresh(StateChangeConfUpdated, ctx.plan.domain_id, ctx.plan.id, fault)
         IN  IF r.verdict = "continue"
             THEN /\ wait' = r.wait
                  /\ last' = Outcome("Update", "refresh", FALSE, <<>>, <<r.call>>, r.result, NoErr)
                  /\ UNCHANGED <<tfstate, pc, ctx>>
             ELSE UpdateFinish(r.err, "refresh", <<r.call>>, r.result)
    /\ UNCHANGED <<remote, hist, importVars>>

UpdateTimeout ==
    /\ pc = "waitProjectUpdated"
    /\ UpdateFinish(TimeoutError, "timeout", <<>>, NoResult)
    /\ UNCHANGED <<remote, hist, importVars>>

(***************************************************************************)
(* Delete                                                                  *)
(***************************************************************************)
DeleteProjectInput(state) ==
    [NoInput EXCEPT
        !.DomainIdentifier = state.domain_id,
        !.Identifier = state.id,
        !.SkipDeletionCheck =
            IF state.skip_deletion_check # Null THEN state.skip_deletion_check ELSE Nil]

\* conn.DeleteProject: an accepted request leaves the project DELETING.
DeleteProject(rem, in, fault) ==
    IF fault # NoErr THEN [err |-> fault, rem |-> rem]
    ELSE IF ~rem.present \/ rem.domain_id # in.DomainIdentifier \/ rem.id # in.Identifier
    THEN [err |-> ResourceNotFoundException, rem |-> rem]
    ELSE [err |-> NoErr, rem |-> [rem EXCEPT !.project_status = "DELETING"]]

\* Delete up to the call of waitProjectDeleted. A return without error
\* diagnostics makes the framework remove the stored record.
DeleteBody(state, fault) ==
    LET in == DeleteProjectInput(state)
        res == DeleteProject(remote, in, fault)
        calls == <<Call("DeleteProject", res.err)>>
    IN  IF res.err # NoErr
        THEN IF res.err = ResourceNotFoundException \/ res.err = AccessDeniedException
             THEN /\ tfstate' = NoRecord
                  /\ last' = Outcome("Delete", "start", TRUE, <<>>, calls, NoResult, NoErr)
                  /\ UNCHANGED <<remote, pc, wait>>
             ELSE /\ last' = Outcome("Delete", "start", TRUE,
                                     <<ProblemStandardMessage("ErrActionDeleting", res.err)>>,
                                     calls, NoResult, NoErr)
                  /\ UNCHANGED <<tfstate, remote, pc, wait>>
        ELSE /\ remote' = res.rem
             /\ pc' = "waitProjectDeleted"
             /\ wait' = NoWait
             /\ last' = Outcome("Delete", "start", FALSE, <<>>, calls, NoResult, NoErr)
             /\ UNCHANGED tfstate

Delete ==
    /\ pc = "idle"
    /\ tfstate.present
    /\ \E fault \in {NoErr} \cup ApiFaults : DeleteBody(tfstate, fault)
    /\ ctx' = [plan |-> NoRecord, in |-> DeleteProjectInput(tfstate), out |-> NoProject]
    /\ hist' = NoHist
    /\ UNCHANGED importVars

\* Delete reporting every error of the poll, access-denied included.
DeleteFinish_ReportAccessDenied(err, step, calls, result) ==
    /\ IF err # NoErr
       THEN /\ last' = Outcome("Delete", step, TRUE,
                               <<ProblemStandardMessage("ErrActionWaitingForDeletion", err)>>,
                               calls, result, err)
            /\ UNCHANGED tfstate
       ELSE /\ tfstate' = NoRecord
            /\ last' = Outcome("Delete", step, TRUE, <<>>, calls, result, err)
    /\ pc' = "idle"
    /\ wait' = NoWait
    /\ ctx' = NoCtx

\* The rest of Delete once waitProjectDeleted has returned err.
DeleteFinish(err, step, calls, result) ==
    /\ IF err # NoErr /\ err # AccessDeniedException
       THEN /\ last' = Outcome("Delete", step, TRUE,
                               <<ProblemStandardMessage("ErrActionWaitingForDeletion", err)>>,
                               calls, result, err)
            /\ UNCHANGED tfstate
       ELSE /\ tfstate' = NoRecord
            /\ last' = Outcome("Delete", step, TRUE, <<>>, calls, result, err)
    /\ pc' = "idle"
    /\ wait' = NoWait
    /\ ctx' = NoCtx

DeleteRefresh ==
    /\ pc = "waitProjectDeleted"
    /\ \E fault \in {NoErr} \cup ApiFaults :
         LET r == Refresh(StateChangeConfDeleted, tfstate.domain_id, tfstate.id, fault)
         IN  IF r.verdict = "continue"
             THEN /\ wait' = r.wait
                  /\ last' = Outcome("Delete", "refresh", FALSE, <<>>, <<r.call>>, r.result, NoErr)
                  /\ UNCHANGED <<tfstate, pc, ctx>>
             ELSE DeleteFinish(r.err, "refresh", <<r.call>>, r.result)
    /\ UNCHANGED <<remote, hist, importVars>>

DeleteTimeout ==
    /\ pc = "waitProjectDeleted"
    /\ DeleteFinish(TimeoutError, "timeout", <<>>, NoResult)
    /\ UNCHANGED <<remote, hist, importVars>>

(***************************************************************************)
(* The remote project changes on its own                                   *)
(***************************************************************************)
RemoteStep ==
    /\ remote.present
    /\ \/ \E st \in Statuses \ {remote.project_status} :
            remote' = [remote EXCEPT !.project_status = st]
       \/ remote' = [remote EXCEPT !.failure_reasons = ~@]
       \/ remote' = NoProject
    /\ hist' = NoHist
    /\ UNCHANGED <<tfstate, pc, ctx, wait, last, importVars>>

(***************************************************************************)
(* Specifications                                                          *)
(***************************************************************************)
Init ==
    /\ tfstate = NoRecord
    /\ remote = NoProject
    /\ pc = "idle"
    /\ ctx = NoCtx
    /\ wait = NoWait
    /\ last = NoLast
    /\ hist = NoHist
    /\ req_ID = <<>>
    /\ importResp = NoImportResp

\* The lifecycle against a remote project that changes on its own; plans vary
\* in domain_id, name and description.
Create == CreateWith(Names, Descriptions, {Null}, {Null}, {"nil", "failure", "ok"}, Statuses)

Update == UpdateWith(Names, Descriptions, {Null}, {Null})

Next ==
    \/ Create
    \/ CreateRefresh
    \/ CreateTimeout
    \/ Read
    \/ Update
    \/ UpdateRefresh
    \/ UpdateTimeout
    \/ Delete
    \/ DeleteRefresh
    \/ DeleteTimeout
    \/ RemoteStep

Spec == Init /\ [][Next]_vars

\* The lifecycle against a remote project that stays ACTIVE; plans vary in
\* every configurable attribute.
CreateFields ==
    CreateWith(Names, Descriptions, GlossaryTermLists, SkipValues, {"ok"}, {"ACTIVE"})

UpdateFields == UpdateWith(Names, Descriptions, GlossaryTermLists, SkipValues)

NextFields ==
    \/ CreateFields
    \/ CreateRefresh
    \/ CreateTimeout
    \/ Read
    \/ UpdateFields
    \/ UpdateRefresh
    \/ UpdateTimeout

SpecFields == Init /\ [][NextFields]_vars

\* Another client renames the remote project.
RemoteRename ==
    /\ remote.present
    /\ \E n \in Names \ {remote.name} : remote' = [remote EXCEPT !.name = n]
    /\ hist' = NoHist
    /\ UNCHANGED <<tfstate, pc, ctx, wait, last, importVars>>

\* The handlers that write the record, on plans that vary in name,
\* description and skip_deletion_check, against a remote project that stays
\* ACTIVE and can be renamed by another client.
CreateFrame == CreateWith(Names, {Null}, {Null}, SkipValues, {"ok"}, {"ACTIVE"})

UpdateFrame == UpdateWith(Names, Descriptions, {Null}, SkipValues)

NextFrame ==
    \/ CreateFrame
    \/ CreateRefresh
    \/ CreateTimeout
    \/ Read
    \/ UpdateFrame
    \/ UpdateRefresh
    \/ UpdateTimeout
    \/ RemoteRename

SpecFrame == Init /\ [][NextFrame]_vars

\* ImportState on every identifier of at most MaxLen characters.
InitImport ==
    /\ tfstate = NoRecord
    /\ remote = NoProject
    /\ pc = "idle"
    /\ ctx = NoCtx
    /\ wait = NoWait
    /\ last = NoLast
    /\ hist = NoHist
    /\ req_ID \in Strings
    /\ importResp = NoImportResp

NextImport == ImportState

SpecImport == InitImport /\ [][NextImport]_vars

(***************************************************************************)
(* Claims                                                                  *)
(***************************************************************************)
DelimiterCount(s) == Cardinality({i \in 1..Len(s) : s[i] = ":"})

DomainIdError ==
    ProblemStandardMessage("ErrActionUpdating", "domain_id should not change with updates")

Waits == {"waitProjectCreated", "waitProjectUpdated", "waitProjectDeleted"}

WaitConf(p) ==
    IF p = "waitProjectCreated" THEN StateChangeConfCreated
    ELSE IF p = "waitProjectUpdated" THEN StateChangeConfUpdated
    ELSE StateChangeConfDeleted

WaitingActions ==
    {"ErrActionWaitingForCreation", "ErrActionWaitingForUpdate", "ErrActionWaitingForDeletion"}

\* A refresh result that shows a terminal failure: a status outside the
\* pending and target sets, or a response carrying failure reasons.
TerminalResult(conf, r) ==
    \/ r.found /\ r.state \notin (conf.Pending \cup conf.Target)
    \/ r.err = EmptyResultError

\* The step is a handler step (it wrote last, ctx, the record or the position).
HandlerStep == <<tfstate, pc, ctx, wait, last>>' # <<tfstate, pc, ctx, wait, last>>

\* C1: ImportState on an identifier with exactly one ':' sets domain_id to the
\* part before it and id to the part after it, without error; on any other
\* delimiter count it finishes with the format error diagnostic, and never
\* with a program fault.
C1_ImportContract ==
    importResp.run =>
        /\ ~importResp.panic
        /\ DelimiterCount(req_ID) = 1 =>
             /\ importResp.diags = <<>>
             /\ \E k \in 1..Len(req_ID) :
                  /\ req_ID[k] = ":"
                  /\ importResp.domain_id = SubSeq(req_ID, 1, k - 1)
                  /\ importResp.id = SubSeq(req_ID, k + 1, Len(req_ID))
        /\ DelimiterCount(req_ID) # 1 =>
             \E i \in 1..Len(importResp.diags) : importResp.diags[i] = ImportFormatError

\* C2: waitProjectCreated and waitProjectUpdated return success only at a
\* refresh that observes ACTIVE right after a refresh that observed ACTIVE: a
\* non-target status or a not-found result in between breaks the count.
C2_SuccessOnlyAfterTwoConsecutiveActive ==
    [][(/\ pc \in {"waitProjectCreated", "waitProjectUpdated"}
        /\ pc' = "idle"
        /\ last'.step = "refresh"
        /\ last'.waitErr = NoErr)
       => /\ last'.result.found /\ last'.result.state = "ACTIVE"
          /\ wait.lastResult.found /\ wait.lastResult.state = "ACTIVE"]_vars

\* C3: a create, update or delete wait that has just observed a terminal
\* failure status (at its latest refresh or the one before), or that times
\* out, returns an error, and the handler reports a "waiting for" error: the
\* wait never ends as a success then.
C3_TerminalOrTimeoutIsWaitError ==
    [][(/\ pc \in Waits
        /\ pc' = "idle"
        /\ \/ last'.step = "timeout"
           \/ TerminalResult(WaitConf(pc), last'.result)
           \/ TerminalResult(WaitConf(pc), wait.lastResult))
       => /\ last'.waitErr # NoErr
          /\ Len(last'.diags) = 1
          /\ last'.diags[1].action \in WaitingActions]_vars

\* C4: in waitProjectDeleted the first refresh that reports the project as not
\* found ends the wait with success at once (no further refresh), whatever
\* was observed before it.
C4_DeleteWaitNotFoundIsSuccess ==
    [][(/\ pc = "waitProjectDeleted"
        /\ HandlerStep
        /\ last'.step = "refresh"
        /\ ~last'.result.found
        /\ last'.result.err = NoErr)
       => /\ pc' = "idle"
          /\ last'.returned
          /\ last'.waitErr = NoErr
          /\ last'.diags = <<>>
          /\ tfstate' = NoRecord]_vars

C4_Witness ==
    /\ last.op = "Delete"
    /\ last.step = "refresh"
    /\ last.returned
    /\ ~last.result.found
    /\ last.result.err = NoErr
    /\ last.diags = <<>>
    /\ ~tfstate.present

\* C5: Delete tolerates an absent object. DeleteProject answering
\* resource-not-found or access-denied: no error, no poll, record removed;
\* any other DeleteProject error: reported, no poll; DeleteProject accepted:
\* Delete polls until the object is gone, access-denied from the poll counts
\* as success and every other poll error is reported.
C5_DeleteTolerance ==
    last.op = "Delete" =>
        IF last.step = "start"
        THEN /\ Len(last.calls) = 1
             /\ last.calls[1].api = "DeleteProject"
             /\ LET e == last.calls[1].err
                IN  /\ e \in {ResourceNotFoundException, AccessDeniedException} =>
                         /\ last.returned /\ last.diags = <<>>
                         /\ pc = "idle" /\ ~tfstate.present
                    /\ e \notin {NoErr, ResourceNotFoundException, AccessDeniedException} =>
                         /\ last.returned
                         /\ last.diags = <<ProblemStandardMessage("ErrActionDeleting", e)>>
                         /\ pc = "idle" /\ tfstate.present
                    /\ e = NoErr =>
                         /\ ~last.returned /\ last.diags = <<>>
                         /\ pc = "waitProjectDeleted" /\ tfstate.present
        ELSE IF ~last.returned
        THEN pc = "waitProjectDeleted" /\ last.diags = <<>> /\ tfstate.present
        ELSE /\ pc = "idle"
             /\ last.waitErr \in {NoErr, AccessDeniedException} =>
                  last.diags = <<>> /\ ~tfstate.present
             /\ last.waitErr \notin {NoErr, AccessDeniedException} =>
                  /\ last.diags =
                       <<ProblemStandardMessage("ErrActionWaitingForDeletion", last.waitErr)>>
                  /\ tfstate.present
             /\ last.waitErr = NoErr => ~last.result.found /\ last.result.err = NoErr

C5_Witness ==
    /\ last.op = "Delete"
    /\ last.step = "refresh"
    /\ last.returned
    /\ last.waitErr = AccessDeniedException
    /\ last.diags = <<>>
    /\ ~tfstate.present

\* C6: an Update whose plan keeps the prior state's domain_id passes the
\* identifier check (it goes on to the UpdateProject call); an Update whose
\* plan changes domain_id is rejected with the error naming domain_id, issues
\* no UpdateProject call, runs no poll and leaves the stored record unchanged.
C6_DomainIdCheck ==
    [][(/\ pc = "idle"
        /\ tfstate.present
        /\ last'.op = "Update"
        /\ last'.step = "start"
        /\ HandlerStep)
       => IF ctx'.plan.domain_id # tfstate.domain_id
          THEN /\ last'.returned
               /\ last'.diags = <<DomainIdError>>
               /\ last'.calls = <<>>
               /\ pc' = "idle"
               /\ wait' = wait
               /\ tfstate' = tfstate
               /\ remote' = remote
          ELSE /\ \A i \in 1..Len(last'.diags) : last'.diags[i] # DomainIdError
               /\ Len(last'.calls) = 1
               /\ last'.calls[1].api = "UpdateProject"]_vars

C6_Witness ==
    /\ last.op = "Update"
    /\ last.step = "start"
    /\ tfstate.present
    /\ ctx.plan.domain_id # tfstate.domain_id
    /\ last.diags = <<DomainIdError>>
    /\ last.calls = <<>>
    /\ pc = "idle"

\* After a successful Create and only Reads since, with no remote change in
\* between, the record kept has the id returned by CreateProject and the
\* planned domain_id.
CreatedIdsKept ==
    (hist.created /\ tfstate.present) =>
        /\ tfstate.id = hist.id
        /\ tfstate.domain_id = hist.domain_id

\* C7: after a successful Create, a following Read (no remote change in
\* between) yields a record whose id is the one the CreateProject response
\* returned and whose domain_id is the planned one; and a Read never changes
\* id or domain_id of a record it keeps.
C7_CreateThenReadKeepsIds ==
    [][/\ CreatedIdsKept'
       /\ (/\ pc = "idle"
           /\ tfstate.present
           /\ last'.op = "Read"
           /\ HandlerStep
           /\ tfstate'.present)
          => /\ tfstate'.id = tfstate.id
             /\ tfstate'.domain_id = tfstate.domain_id]_vars

C7_Witness ==
    /\ hist.created
    /\ last.op = "Read"
    /\ last.diags = <<>>
    /\ last.calls = <<Call("GetProject", NoErr)>>
    /\ tfstate.present
    /\ tfstate.id = hist.id
    /\ tfstate.id \in ProjectIds

\* An UpdateProject request has been issued by the latest Update.
UpdateProjectIssued ==
    /\ last.op = "Update"
    /\ last.step = "start"
    /\ Len(last.calls) = 1
    /\ last.calls[1].api = "UpdateProject"

\* C8: the UpdateProject request carries a mutable field (name, description,
\* glossary_terms) exactly when the plan's value of the field differs from the
\* prior state's value, a change to or from an unset value included.
C8_SendsExactlyChangedFields ==
    UpdateProjectIssued =>
        /\ (ctx.in.Name # Nil) <=> (ctx.plan.name # tfstate.name)
        /\ (ctx.in.Description # Nil) <=> (ctx.plan.description # tfstate.description)
        /\ (ctx.in.GlossaryTerms # Nil) <=> (ctx.plan.glossary_terms # tfstate.glossary_terms)

\* An attribute value equals the output field it was copied from.
CopiedFrom(attr, field) == attr = (IF field = Nil THEN Null ELSE field)

CreateStartOrdered ==
    (last.op = "Create" /\ last.step = "start") =>
        /\ Len(last.calls) \in {1, 2}
        /\ last.calls[1].api = "GetDomain"
        /\ ~tfstate.present
        /\ IF last.calls[1].err # NoErr
           THEN /\ Len(last.calls) = 1
                /\ last.returned
                /\ last.diags = <<ProblemStandardMessage("ErrActionCreating", last.calls[1].err)>>
                /\ pc = "idle"
           ELSE /\ Len(last.calls) = 2
                /\ last.calls[2].api = "CreateProject"
                /\ IF last.calls[2].err # NoErr
                   THEN /\ last.returned
                        /\ last.diags =
                             <<ProblemStandardMessage("ErrActionCreating", last.calls[2].err)>>
                        /\ pc = "idle"
                   ELSE IF ~ctx.out.present \/ ctx.out.failure_reasons
                   THEN /\ last.returned
                        /\ Len(last.diags) = 1
                        /\ last.diags[1].action = "ErrActionCreating"
                        /\ pc = "idle"
                   ELSE /\ ~last.returned
                        /\ last.diags = <<>>
                        /\ pc = "waitProjectCreated"
                        /\ ctx.plan.id = ctx.out.id

\* C10: Create runs GetDomain, CreateProject, the check of the response, the
\* copy of the returned fields and the poll in this order; a failure at a step
\* reports an error and aborts (no CreateProject call after a failed GetDomain),
\* and the record is written only by the step that ends the poll with success.
C10_CreateStepOrder ==
    [][/\ CreateStartOrdered'
       /\ (~tfstate.present /\ tfstate'.present)
          => /\ pc = "waitProjectCreated"
             /\ pc' = "idle"
             /\ last'.op = "Create"
             /\ last'.step = "refresh"
             /\ last'.waitErr = NoErr
             /\ last'.diags = <<>>
             /\ tfstate' = ctx.plan
       /\ (pc = "waitProjectCreated" /\ pc' = "idle" /\ last'.waitErr # NoErr)
          => /\ tfstate' = tfstate
             /\ last'.diags =
                  <<ProblemStandardMessage("ErrActionWaitingForCreation", last'.waitErr)>>]_vars

C10_Witness ==
    /\ last.op = "Create"
    /\ last.step = "start"
    /\ last.calls = <<Call("GetDomain", ResourceNotFoundException)>>
    /\ last.returned
    /\ Len(last.diags) = 1
    /\ ~tfstate.present
    /\ pc = "idle"

\* C11: statusProject maps a describe outcome to one of three results: the
\* absent result (no object, empty status, no error) exactly when GetProject
\* answers resource-not-found; a hard failure carrying the error for any
\* other GetProject error; and for every answer without error, where the
\* remote project exists, the object with its current project status.
C11_StatusProjectMapping ==
    [][(/\ pc \in Waits
        /\ last'.step = "refresh"
        /\ HandlerStep)
       => LET e == last'.calls[1].err
              r == last'.result
          IN  /\ (r = NoResult) <=> (e = ResourceNotFoundException)
              /\ e \notin {NoErr, ResourceNotFoundException} =>
                   ~r.found /\ r.err = e
              /\ e = NoErr =>
                   /\ r.found
                   /\ r.err = NoErr
                   /\ r.state = remote.project_status]_vars

\* C12: a successful Update stores the prior state with the fields of the
\* UpdateProject response copied over it, the response being the one captured
\* at the call and kept through the poll: skip_deletion_check keeps its
\* prior-state value, not the plan's; an Update that fails (domain_id check,
\* UpdateProject error, empty response, poll error) leaves the record unchanged.
C12_UpdateFrame ==
    [][/\ (pc = "waitProjectUpdated" /\ pc' = "idle" /\ last'.waitErr = NoErr)
          => /\ last'.diags = <<>>
             /\ tfstate'.present
             /\ CopiedFrom(tfstate'.id, ctx.out.id)
             /\ CopiedFrom(tfstate'.domain_id, ctx.out.domain_id)
             /\ CopiedFrom(tfstate'.name, ctx.out.name)
             /\ CopiedFrom(tfstate'.description, ctx.out.description)
             /\ CopiedFrom(tfstate'.glossary_terms, ctx.out.glossary_terms)
             /\ tfstate'.skip_deletion_check = tfstate.skip_deletion_check
       /\ (/\ pc = "idle"
           /\ last'.op = "Update"
           /\ last'.step = "start"
           /\ HandlerStep
           /\ ~last'.returned)
          => ctx'.out.present /\ ctx'.out = remote'
       /\ (pc = "waitProjectUpdated" /\ pc' = pc)
          => ctx' = ctx /\ tfstate' = tfstate
       /\ (last'.op = "Update" /\ HandlerStep /\ last'.diags # <<>>)
          => tfstate' = tfstate]_vars

C12_Witness ==
    /\ last.op = "Update"
    /\ last.step = "refresh"
    /\ last.returned
    /\ last.waitErr = NoErr
    /\ last.diags = <<>>
    /\ tfstate.present
    /\ remote.present
    /\ tfstate.name # remote.name

====
